---- MODULE Spec2Model ----
(***************************************************************************)
(* urbackup-clone-btrfs: one-way replication of read-only btrfs snapshots  *)
(* from a source volume to a destination volume.  The model follows        *)
(* src/urbackup-clone-btrfs.py: the driver main(), its helpers, the        *)
(* __main__ guard and exit_handler().  External tools (btrfs, sshfs,       *)
(* rsync, fusermount) and the operator are the environment: their exit     *)
(* status and output are chosen nondeterministically.                      *)
(***************************************************************************)
EXTENDS Integers, Sequences, FiniteSets, TLC

\* ------------------------------------------------------------------ bounds
MaxSrc == 3          \* number of snapshots on the source volume
MaxSrcChanges == 1   \* source snapshots pruned / made writable under a run

\* ------------------------------------------------------ program constants
SHOW_STATS_INTERVAL == 10
RSYNC_DST == "_urbcb_misc_backups"   \* os.path.basename(RSYNC_DST)

\* ------------------------------------------------------------- the volumes
\* A relative path is <<client directory, snapshot name>>; NoPath is the
\* None a path-returning function falls off with.
NoPath == <<>>

\* Subvol dataclass (id, uuid, rel_path, parent_uuid, received_uuid)
Subvol(id, uuid, rel_path, parent_uuid, received_uuid) ==
    [id |-> id, uuid |-> uuid, rel_path |-> rel_path,
     parent_uuid |-> parent_uuid, received_uuid |-> received_uuid]

\* the None a Subvol-returning function falls off with
None == Subvol(0, "", NoPath, "", "")

\* The source volume: snapshot n of 1..MaxSrc.  2 is a clone of 1, 3 is an
\* orphan (its parent Z was pruned long ago) that was itself received (R).
SrcUuids == <<"A", "B", "C", "D", "E">>
SrcPaths == << <<"h", "1">>, <<"h", "2">>, <<"g", "1">>, <<"g", "2">>, <<"k", "1">> >>
SrcParents == <<"", "A", "Z", "C", "D">>
SrcReceived == <<"", "", "R", "", "">>
DstUuids == <<"a", "b", "c", "d", "e">>

SrcSubvol(n) == Subvol(n, SrcUuids[n], SrcPaths[n], SrcParents[n], SrcReceived[n])
SrcVolume == {SrcSubvol(n) : n \in 1..MaxSrc}

\* Snapshots a destination volume may hold before the first run.
DstCopy1 == Subvol(11, "X", <<"h", "1">>, "", "A")     \* valid copy of 1
DstMoved == Subvol(12, "Y", <<"h", "9">>, "", "A")     \* received from 1, other path
DstPartial == Subvol(13, "W", <<"h", "2">>, "", "")    \* interrupted copy of 2
DstCopy3 == Subvol(14, "V", <<"g", "1">>, "", "R")     \* copy of 3 by received uuid
DstStray == Subvol(15, "U", <<"s", "1">>, "", "Q")     \* no source counterpart
DstVolumes == {{}, {DstCopy1, DstMoved}, {DstPartial, DstStray},
               {DstCopy1, DstCopy3, DstStray}}

Paths(subvols) == {s.rel_path : s \in subvols}
Dirs(subvols) == {s.rel_path[1] : s \in subvols}
Range(seq) == {seq[k] : k \in 1..Len(seq)}

\* --------------------------------------------------------------- the state
VARIABLES
    args,               \* parsed arguments (flags, endpoints, args.*.sshfs)
    pc,                 \* position of the process
    run,                \* which run of the program this is
    src_disk,           \* snapshots on the source volume
    src_rw,             \* source paths whose ro property is not true
    src_changes,        \* changes made to the source under the runs
    dst_disk,           \* snapshots on the destination volume
    dst_dirs,           \* directories at the top of the destination
    tmpdir,             \* the run's sshfs mountpoint: none, dir, mounted
    src_fs_uuid, dst_fs_uuid,   \* main: filesystem uuids
    src_subvols, dst_subvols,   \* main: the cached inventories
    idx,                \* main: position of the for loop in src_subvols
    dst_subvol,         \* main: last result of get_dst_subvol_by_src_subvol
    src_parent_rel_path,\* main: last result of get_valid_src_parent_rel_path
    show_stats_counter, \* main: transfers since the start
    exc,                \* exception that ended main(), or none
    exit_code,          \* exit status of the process, -1 while it runs
    \* history of the run
    ops,                \* kinds of calls issued so far in this run
    xfer,               \* the transfer launched last in this run
    earlier_ok,         \* every transfer launched before it succeeded
    stray_paths,        \* paths handed to the stray subvolume deletion
    listed,             \* outcome of the run's two listing commands
    handled,            \* error_handler was invoked in this run
    teardown_failed,    \* unmount or rmdir failed in exit_handler
    dst_before,         \* destination (snapshots, directories) at run start
    prev,               \* summary of the previous run
    refresh,            \* transfers done since dst_subvols was last built
    batch,              \* the last batch of deletions: countdown key, calls
    stats_interval,     \* the value SHOW_STATS_INTERVAL is set to
    call                \* a helper called on its own: its input and result

vars == <<args, pc, run, src_disk, src_rw, src_changes, dst_disk, dst_dirs,
          tmpdir, src_fs_uuid, dst_fs_uuid, src_subvols, dst_subvols, idx,
          dst_subvol, src_parent_rel_path, show_stats_counter, exc, exit_code,
          ops, xfer, earlier_ok, stray_paths, listed, handled,
          teardown_failed, dst_before, prev,
          refresh, batch, stats_interval, call>>

world == <<src_disk, src_rw, src_changes, dst_disk, dst_dirs>>
locals == <<src_fs_uuid, dst_fs_uuid, src_subvols, dst_subvols, idx,
            dst_subvol, src_parent_rel_path, show_stats_counter>>
fixed == <<stats_interval, call>>
history == <<ops, xfer, earlier_ok, stray_paths, listed, handled,
             teardown_failed, dst_before, prev, refresh, batch, fixed>>

\* no transfer launched yet
NoXfer == [rel_path |-> NoPath, parent |-> NoPath, returncode |-> 0,
           errors |-> FALSE, interrupted |-> FALSE, handled |-> FALSE]

Succeeded(x) == x.returncode = 0 /\ ~x.errors /\ ~x.interrupted

NoPrev == [ran |-> FALSE, complete |-> FALSE, dry_run |-> FALSE,
           all_ok |-> FALSE, launched |-> FALSE,
           listed |-> [src |-> FALSE, dst |-> FALSE]]

Args == [dry_run : BOOLEAN, delete_strays : BOOLEAN, ignore_errors : BOOLEAN,
         interactive : BOOLEAN, verbose : {0, 1}, src_ssh : BOOLEAN,
         dst_ssh : BOOLEAN, sshfs : {""}]

\* no helper called on its own
NoCall == [fn |-> "none"]

\* the inventory of the destination was just built
Fresh == [ok |-> 0, relisted |-> FALSE]

\* no batch of deletions yet
NoBatch == [key |-> "none", issued |-> FALSE, items |-> {}]

InitRun(arguments, intervals) ==
    /\ batch = NoBatch
    /\ args \in arguments
    /\ stats_interval \in intervals
    /\ call = NoCall
    /\ refresh = Fresh
    /\ pc = "start"
    /\ run = 1
    /\ src_disk = SrcVolume
    /\ src_rw = {}
    /\ src_changes = 0
    /\ dst_disk \in DstVolumes
    /\ dst_dirs = Dirs(dst_disk) \cup {"old"}
    /\ tmpdir = "none"
    /\ src_fs_uuid = ""
    /\ dst_fs_uuid = ""
    /\ src_subvols = <<>>
    /\ dst_subvols = <<>>
    /\ idx = 0
    /\ dst_subvol = None
    /\ src_parent_rel_path = NoPath
    /\ show_stats_counter = 0
    /\ exc = "none"
    /\ exit_code = -1
    /\ ops = {}
    /\ xfer = NoXfer
    /\ earlier_ok = TRUE
    /\ stray_paths = {}
    /\ listed = [src |-> FALSE, dst |-> FALSE]
    /\ handled = FALSE
    /\ teardown_failed = FALSE
    /\ dst_before = [disk |-> dst_disk, dirs |-> dst_dirs]
    /\ prev = NoPrev

\* a run of the script as shipped
InitWith(arguments) == InitRun(arguments, {SHOW_STATS_INTERVAL})

\* --------------------------------------------------------- error handling
\* error_handler: continue under --ignore-errors, else sys.exit(1).  The
\* operator gives the exception main() ends with ("none": it goes on).
error_handler == IF args.ignore_errors THEN "none" ELSE "SystemExit1"

\* do_countdown: the keys the operator can answer a countdown with; without
\* --interactive there is no countdown.  Escape is sys.exit(0).
do_countdown == IF args.interactive THEN {"enter", "escape"} ELSE {"none"}

\* ---------------------------------------------------------------- main()
\* (mutant) the safety checks without the test for one and the same filesystem
ConfigError_NoSameFs(src_ssh, dst_ssh, src_uuid, dst_uuid) ==
    \/ src_ssh /\ dst_ssh
    \/ src_uuid = ""
    \/ dst_uuid = ""

\* the safety checks of main
ConfigError(src_ssh, dst_ssh, src_uuid, dst_uuid) ==
    \/ src_ssh /\ dst_ssh
    \/ src_uuid = ""
    \/ dst_uuid = ""
    \/ src_uuid = dst_uuid

\* what get_filesystem_uuid can return: '' on a failed command or no match
SrcFsUuids == {"", "fs1"}
DstFsUuids == {"", "fs1", "fs2"}

\* main, lines 870-894: filesystem uuids and the safety checks
MainStart ==
    /\ pc = "start"
    /\ \E su \in SrcFsUuids, du \in DstFsUuids :
        /\ src_fs_uuid' = su
        /\ dst_fs_uuid' = du
        /\ IF ConfigError(args.src_ssh, args.dst_ssh, su, du)
           THEN exc' = "RuntimeError" /\ pc' = "exit_handler"
           ELSE exc' = exc /\ pc' = "build"
    /\ UNCHANGED <<args, run, world, tmpdir, src_subvols, dst_subvols, idx,
                   dst_subvol, src_parent_rel_path, show_stats_counter,
                   exit_code, history>>

\* ------------------------------------------------------------ inventories
\* (mutant) the uuid kept as btrfs printed it
normalize_uuid_Keep(uuid) == uuid

\* normalize_uuid: btrfs prints '-' for a uuid that does not exist
normalize_uuid(uuid) == IF uuid = "-" THEN "" ELSE uuid

\* A line of "btrfs subvolume list -qRu": the fields the five patterns of
\* build_subvols look for.  A line is a record of the fields it holds.
LineFields == {"ID", "uuid", "parent_uuid", "received_uuid", "path"}

\* the line btrfs prints for a snapshot
Line(s) ==
    [ID |-> s.id, uuid |-> s.uuid, path |-> s.rel_path,
     parent_uuid |-> IF s.parent_uuid = "" THEN "-" ELSE s.parent_uuid,
     received_uuid |-> IF s.received_uuid = "" THEN "-" ELSE s.received_uuid]

\* a line of another shape: none of the patterns finds its field
JunkLine == [text |-> "WARNING"]

\* (mutant) the sort left out
SortById_Unsorted(subvols) == subvols

\* (mutant) the sort by descending id
RECURSIVE SortById_Descending(_)
SortById_Descending(subvols) ==
    IF subvols = <<>> THEN <<>>
    ELSE LET n == Len(subvols)
             k == CHOOSE i \in 1..n : \A j \in 1..n :
                      \/ subvols[i].id > subvols[j].id
                      \/ subvols[i].id = subvols[j].id /\ i <= j
         IN <<subvols[k]>> \o
            SortById_Descending(SubSeq(subvols, 1, k - 1)
                                    \o SubSeq(subvols, k + 1, n))

\* sorted(subvols, key=lambda subvol: subvol.id): ascending and stable
RECURSIVE SortById(_)
SortById(subvols) ==
    IF subvols = <<>> THEN <<>>
    ELSE LET n == Len(subvols)
             k == CHOOSE i \in 1..n : \A j \in 1..n :
                      \/ subvols[i].id < subvols[j].id
                      \/ subvols[i].id = subvols[j].id /\ i <= j
         IN <<subvols[k]>> \o
            SortById(SubSeq(subvols, 1, k - 1) \o SubSeq(subvols, k + 1, n))

\* the lines btrfs prints for a set of snapshots: by ascending ID
RECURSIVE ListingLines(_)
ListingLines(subvols) ==
    IF subvols = {} THEN <<>>
    ELSE LET first == CHOOSE s \in subvols : \A t \in subvols : s.id <= t.id
         IN <<Line(first)>> \o ListingLines(subvols \ {first})

\* run_cmd of "btrfs subvolume list -qRu[r]": (ret, out).  With -r the
\* read-only snapshots only; a failed command prints nothing to stdout;
\* junk: stdout ends with a line of another shape
ListingOut(disk, rw, readonly, ok, junk) ==
    [ret |-> IF ok THEN 0 ELSE 1,
     out |-> IF ~ok THEN <<>>
             ELSE ListingLines(IF readonly THEN {s \in disk : s.rel_path \notin rw}
                               ELSE disk)
                  \o (IF junk THEN <<JunkLine>> ELSE <<>>)]

\* (mutant) the parse loop that appends something for a malformed line too
RECURSIVE parse_lines_KeepMalformed(_, _)
parse_lines_KeepMalformed(lines, ignore_errors) ==
    IF lines = <<>> THEN [subvols |-> <<>>, handled |-> FALSE, exc |-> "none"]
    ELSE LET line == Head(lines)
             rest == parse_lines_KeepMalformed(Tail(lines), ignore_errors)
         IN IF LineFields \subseteq DOMAIN line
            THEN [rest EXCEPT !.subvols =
                    <<Subvol(line.ID, line.uuid, line.path,
                             normalize_uuid(line.parent_uuid),
                             normalize_uuid(line.received_uuid))>> \o @]
            ELSE [rest EXCEPT !.handled = TRUE, !.subvols = <<None>> \o @]

\* build_subvols, lines 420-436: the loop over the lines.  A line one of the
\* patterns does not match raises inside the try: error_handler is called,
\* which ends the process unless errors are ignored, and the line gives no
\* record.  The result: the records appended, whether error_handler was
\* called, and the exception the loop ended with.
RECURSIVE parse_lines(_, _)
parse_lines(lines, ignore_errors) ==
    IF lines = <<>> THEN [subvols |-> <<>>, handled |-> FALSE, exc |-> "none"]
    ELSE LET line == Head(lines)
         IN IF LineFields \subseteq DOMAIN line
            THEN LET rest == parse_lines(Tail(lines), ignore_errors)
                 IN [rest EXCEPT !.subvols =
                        <<Subvol(line.ID, line.uuid, line.path,
                                 normalize_uuid(line.parent_uuid),
                                 normalize_uuid(line.received_uuid))>> \o @]
            ELSE IF ~ignore_errors
            THEN [subvols |-> <<>>, handled |-> TRUE, exc |-> "SystemExit1"]
            ELSE [parse_lines(Tail(lines), ignore_errors) EXCEPT !.handled = TRUE]

\* build_subvols: the return code of run_cmd is dropped, the lines of stdout
\* are parsed and the records returned sorted by id
build_subvols(res, ignore_errors) ==
    LET parsed == parse_lines(res.out, ignore_errors)
    IN IF parsed.exc # "none" THEN parsed
       ELSE [parsed EXCEPT !.subvols = SortById(@)]

\* get_dst_subvol_by_src_subvol: the first destination record, in list
\* order, that passes the three nested tests; None when the loop ends
RECURSIVE get_dst_subvol_by_src_subvol_from(_, _, _)
get_dst_subvol_by_src_subvol_from(src_subvol, dst_list, k) ==
    IF k > Len(dst_list) THEN None
    ELSE LET d == dst_list[k]
             src_uuids == {src_subvol.uuid, src_subvol.received_uuid}
         IN IF d.received_uuid # ""
               /\ d.received_uuid \in src_uuids
               /\ d.rel_path = src_subvol.rel_path
            THEN d
            ELSE get_dst_subvol_by_src_subvol_from(src_subvol, dst_list, k + 1)

\* (mutant) the search without the test for a non-empty received uuid
RECURSIVE get_dst_subvol_AnyReceived(_, _, _)
get_dst_subvol_AnyReceived(src_subvol, dst_list, k) ==
    IF k > Len(dst_list) THEN None
    ELSE IF dst_list[k].received_uuid \in {src_subvol.uuid, src_subvol.received_uuid}
            /\ dst_list[k].rel_path = src_subvol.rel_path
         THEN dst_list[k]
         ELSE get_dst_subvol_AnyReceived(src_subvol, dst_list, k + 1)

get_dst_subvol_by_src_subvol_NoEmptyTest(src_subvol, dst_list) ==
    get_dst_subvol_AnyReceived(src_subvol, dst_list, 1)

\* (mutant) the search comparing with the source uuid alone
RECURSIVE get_dst_subvol_UuidOnly(_, _, _)
get_dst_subvol_UuidOnly(src_subvol, dst_list, k) ==
    IF k > Len(dst_list) THEN None
    ELSE IF dst_list[k].received_uuid # ""
            /\ dst_list[k].received_uuid = src_subvol.uuid
            /\ dst_list[k].rel_path = src_subvol.rel_path
         THEN dst_list[k]
         ELSE get_dst_subvol_UuidOnly(src_subvol, dst_list, k + 1)

get_dst_subvol_by_src_subvol_UuidOnly(src_subvol, dst_list) ==
    get_dst_subvol_UuidOnly(src_subvol, dst_list, 1)

get_dst_subvol_by_src_subvol(src_subvol, dst_list) ==
    get_dst_subvol_by_src_subvol_from(src_subvol, dst_list, 1)

\* get_subvol_rel_path_by_uuid: path of the first record with that uuid
RECURSIVE get_subvol_rel_path_by_uuid_from(_, _, _)
get_subvol_rel_path_by_uuid_from(uuid, subvols, k) ==
    IF k > Len(subvols) THEN NoPath
    ELSE IF subvols[k].uuid = uuid THEN subvols[k].rel_path
    ELSE get_subvol_rel_path_by_uuid_from(uuid, subvols, k + 1)

get_subvol_rel_path_by_uuid(uuid, subvols) ==
    get_subvol_rel_path_by_uuid_from(uuid, subvols, 1)

\* os.path.exists on a source path; subvol_is_readonly ('ro=true' in the
\* output of btrfs property get)
\* (mutant) a source path that is taken to exist whatever the volume holds
src_path_exists_Always(rel_path) == TRUE

src_path_exists(rel_path) == rel_path \in Paths(src_disk)
subvol_is_readonly(rel_path) == rel_path \notin src_rw

\* (mutant) the parent search without the read-only test
get_valid_src_parent_rel_path_NoRoTest(parent_uuid, subvols) ==
    IF parent_uuid = "" THEN NoPath
    ELSE LET parent_rel_path == get_subvol_rel_path_by_uuid(parent_uuid, subvols)
         IN IF parent_rel_path = NoPath THEN NoPath
            ELSE IF ~src_path_exists(parent_rel_path) THEN NoPath
            ELSE parent_rel_path

\* get_valid_src_parent_rel_path: the four nested tests
get_valid_src_parent_rel_path(parent_uuid, subvols) ==
    IF parent_uuid = "" THEN NoPath
    ELSE LET parent_rel_path == get_subvol_rel_path_by_uuid(parent_uuid, subvols)
         IN IF parent_rel_path = NoPath THEN NoPath
            ELSE IF ~src_path_exists(parent_rel_path) THEN NoPath
            ELSE IF ~subvol_is_readonly(parent_rel_path) THEN NoPath
            ELSE parent_rel_path

\* main, lines 896-910: both inventories, the stats, the first countdown.
\* junk: the listing whose stdout holds a line of another shape.  main ends
\* at the first exception: the source inventory, the destination inventory,
\* the countdown.
BuildSubvols ==
    /\ pc = "build"
    /\ \E src_ok \in BOOLEAN, dst_ok \in BOOLEAN, junk \in {"none", "src", "dst"},
          key \in do_countdown :
        LET src == build_subvols(
                       ListingOut(src_disk, src_rw, TRUE, src_ok, junk = "src"),
                       args.ignore_errors)
            dst == build_subvols(
                       ListingOut(dst_disk, {}, FALSE, dst_ok, junk = "dst"),
                       args.ignore_errors)
        IN IF src.exc # "none"
           THEN /\ src_subvols' = <<>>
                /\ dst_subvols' = <<>>
                /\ listed' = [src |-> src_ok, dst |-> FALSE]
                /\ handled' = TRUE
                /\ exc' = src.exc
                /\ pc' = "exit_handler"
           ELSE IF dst.exc # "none"
           THEN /\ src_subvols' = src.subvols
                /\ dst_subvols' = <<>>
                /\ listed' = [src |-> src_ok, dst |-> dst_ok]
                /\ handled' = TRUE
                /\ exc' = dst.exc
                /\ pc' = "exit_handler"
           ELSE /\ src_subvols' = src.subvols
                /\ dst_subvols' = dst.subvols
                /\ listed' = [src |-> src_ok, dst |-> dst_ok]
                /\ handled' = (handled \/ src.handled \/ dst.handled)
                /\ IF key = "escape"
                   THEN exc' = "SystemExit0" /\ pc' = "exit_handler"
                   ELSE exc' = exc /\ pc' = "sshfs"
    /\ ops' = ops \cup {"list"}
    /\ refresh' = Fresh
    /\ UNCHANGED <<args, run, world, tmpdir, src_fs_uuid, dst_fs_uuid, idx,
                   dst_subvol, src_parent_rel_path, show_stats_counter,
                   exit_code, xfer, earlier_ok, stray_paths, teardown_failed,
                   dst_before, prev, batch, fixed>>

\* sshfs_mount, lines 794-803: the temporary mountpoint is created; main
\* mounts only when one endpoint is remote
SshfsMkdir ==
    /\ pc = "sshfs"
    /\ IF ~(args.src_ssh \/ args.dst_ssh)
       THEN /\ pc' = "rsync"
            /\ UNCHANGED <<tmpdir, exc, handled, ops>>
       ELSE \E ok \in BOOLEAN :
            IF ok
            THEN /\ tmpdir' = "dir"
                 /\ pc' = "sshfs_mount"
                 /\ ops' = ops \cup {"mount"}
                 /\ UNCHANGED <<exc, handled>>
            ELSE \* error_handler, then sys.exit(1) in either case
                 /\ handled' = TRUE
                 /\ exc' = "SystemExit1"
                 /\ pc' = "exit_handler"
                 /\ UNCHANGED <<tmpdir, ops>>
    /\ UNCHANGED <<args, run, world, locals, exit_code, xfer, earlier_ok, stray_paths,
                   listed, teardown_failed, dst_before, prev, refresh, batch, fixed>>

\* sshfs_mount, lines 805-819: the sshfs command; args.*.sshfs is assigned
\* by main only when sshfs_mount returns
SshfsMount ==
    /\ pc = "sshfs_mount"
    /\ \E ok \in BOOLEAN :
        IF ok
        THEN /\ tmpdir' = "mounted"
             /\ args' = [args EXCEPT !.sshfs = "tmp"]
             /\ pc' = "rsync"
             /\ UNCHANGED <<exc, handled>>
        ELSE \* error_handler exits before os.rmdir unless errors are ignored
             /\ handled' = TRUE
             /\ tmpdir' = IF error_handler = "none" THEN "none" ELSE "dir"
             /\ exc' = "SystemExit1"
             /\ pc' = "exit_handler"
             /\ UNCHANGED args
    /\ UNCHANGED <<run, world, locals, exit_code, ops, xfer, earlier_ok, stray_paths,
                   listed, teardown_failed, dst_before, prev, refresh, batch, fixed>>

\* rsync_copy_misc: the three rsync commands; --dry-run runs none of them.
\* ok: all three succeeded; made: one that ran before the failing one had
\* created the directory of RSYNC_DST
RsyncCopyMisc ==
    /\ pc = "rsync"
    /\ \E ok \in BOOLEAN, made \in BOOLEAN :
        IF args.dry_run
        THEN /\ pc' = IF args.delete_strays THEN "stray_subvols" ELSE "loop"
             /\ UNCHANGED <<dst_dirs, ops, handled, exc>>
        ELSE /\ ops' = ops \cup {"rsync"}
             /\ dst_dirs' = IF ok \/ made THEN dst_dirs \cup {RSYNC_DST} ELSE dst_dirs
             /\ handled' = (handled \/ ~ok)
             /\ IF ~ok /\ error_handler # "none"
                THEN exc' = error_handler /\ pc' = "exit_handler"
                ELSE /\ exc' = exc
                     /\ pc' = IF args.delete_strays THEN "stray_subvols" ELSE "loop"
    /\ idx' = 1
    /\ UNCHANGED <<args, run, src_disk, src_rw, src_changes, dst_disk, tmpdir,
                   src_fs_uuid, dst_fs_uuid, src_subvols, dst_subvols,
                   dst_subvol, src_parent_rel_path, show_stats_counter,
                   exit_code, xfer, earlier_ok, stray_paths, listed, teardown_failed,
                   dst_before, prev, refresh, batch, fixed>>

\* ---------------------------------------------------------------- deletion
\* One batch of deletions, as delete_dst_subvols and delete_dst_directory run
\* it: the countdown (interactive and not dry-run), then one call per item.
\* cannot: the items whose call can only fail.  Each result names the items
\* removed, the exception the batch ends with, and whether a call was issued
\* and whether error_handler was invoked.  The items come from a set, so a
\* batch that error_handler ends has removed any part of the items that
\* did not fail.
\* (mutant) the batches without the countdown
batch_countdown_Never(dryrun) == {"none"}

\* delete_dst_subvols, lines 614-615, delete_dst_directory, lines 643-644:
\* the countdown of a batch, presented in interactive mode outside
\* --dry-run; the keys the operator can answer it with
batch_countdown(dryrun) ==
    IF args.interactive /\ ~dryrun THEN do_countdown ELSE {"none"}

DeleteBatch(items, cannot, dryrun) ==
    LET Result(key, removed, e, issued, h) ==
            [key |-> key, removed |-> removed, exc |-> e, issued |-> issued,
             handled |-> h]
        Calls(key) ==
            IF dryrun THEN {Result(key, {}, "none", FALSE, FALSE)}
            ELSE UNION {
                IF failing = {} THEN {Result(key, items, "none", TRUE, FALSE)}
                ELSE IF error_handler = "none"
                THEN {Result(key, items \ failing, "none", TRUE, TRUE)}
                ELSE {Result(key, before, error_handler, TRUE, TRUE) :
                        before \in SUBSET (items \ failing)}
                : failing \in {f \in SUBSET items : cannot \subseteq f}}
    IN UNION {IF key = "escape"
              THEN {Result(key, {}, "SystemExit0", FALSE, FALSE)}
              ELSE Calls(key) : key \in batch_countdown(dryrun)}

\* what a batch leaves in the history: the key, whether calls were issued,
\* the items handed to it (relative paths; <<d>> for a top directory d)
BatchOf(r, items) == [key |-> r.key, issued |-> r.issued, items |-> items]

\* (mutant) the batch of subvolume deletions that issues no call
delete_dst_subvols_NoCalls(paths) ==
    DeleteBatch(paths, paths \ Paths(dst_disk), TRUE)

\* delete_dst_subvols(*paths): btrfs subvolume delete through run_cmd with
\* dryrun=args.dry_run; a path that holds no snapshot cannot be deleted
delete_dst_subvols(paths) ==
    DeleteBatch(paths, paths \ Paths(dst_disk), args.dry_run)

\* delete_dst_directory(*paths): os.rmdir, skipped under --dry-run; a
\* directory that still holds a snapshot cannot be removed
delete_dst_directory(paths) ==
    DeleteBatch(paths, paths \cap Dirs(dst_disk), args.dry_run)

\* (mutant) strays by identity: destination records received from no
\* source record
stray_dst_subvol_paths_ByUuid(src_list, dst_list) ==
    {d.rel_path : d \in {x \in Range(dst_list) :
        \A s \in Range(src_list) : x.received_uuid \notin {s.uuid, s.received_uuid}}}

\* delete_stray_destinations, lines 670-675: set(dst paths) - set(src paths)
stray_dst_subvol_paths(src_list, dst_list) ==
    Paths(Range(dst_list)) \ Paths(Range(src_list))

\* delete_stray_destinations, lines 686-698: directories of the destination
\* that the source lacks, RSYNC_DST removed from the scan first
SrcDirs == Dirs(src_disk)

\* (mutant) the stray directories without the removal of RSYNC_DST
stray_dst_dirs_KeepRsync(src_dirs, scanned) == scanned \ src_dirs

stray_dst_dirs(src_dirs, scanned) == (scanned \ {RSYNC_DST}) \ src_dirs

\* main, lines 923-925 and delete_stray_destinations, lines 670-678
DeleteStraySubvols ==
    /\ pc = "stray_subvols"
    /\ LET stray == stray_dst_subvol_paths(src_subvols, dst_subvols)
       IN /\ stray_paths' = stray
          /\ IF stray = {}
             THEN /\ pc' = "stray_dirs"
                  /\ UNCHANGED <<dst_disk, ops, handled, exc, batch>>
             ELSE \E r \in delete_dst_subvols(stray) :
                  /\ batch' = BatchOf(r, stray)
                  /\ dst_disk' = {d \in dst_disk : d.rel_path \notin r.removed}
                  /\ ops' = IF r.issued THEN ops \cup {"delete"} ELSE ops
                  /\ handled' = (handled \/ r.handled)
                  /\ exc' = r.exc
                  /\ pc' = IF r.exc = "none" THEN "stray_dirs" ELSE "exit_handler"
    /\ UNCHANGED <<args, run, src_disk, src_rw, src_changes, dst_dirs, tmpdir,
                   locals, exit_code, xfer, earlier_ok, listed, teardown_failed,
                   dst_before, prev, refresh, fixed>>

\* delete_stray_destinations, lines 680-701: the scan of both top
\* directories (it can raise), then the stray directories
DeleteStrayDirs ==
    /\ pc = "stray_dirs"
    /\ \E scan_ok \in BOOLEAN :
        IF ~scan_ok
        THEN /\ handled' = TRUE
             /\ exc' = error_handler
             /\ pc' = IF error_handler = "none" THEN "loop" ELSE "exit_handler"
             /\ UNCHANGED <<dst_dirs, ops, batch>>
        ELSE LET stray == stray_dst_dirs(SrcDirs, dst_dirs)
             IN IF stray = {}
                THEN /\ pc' = "loop"
                     /\ UNCHANGED <<dst_dirs, ops, handled, exc, batch>>
                ELSE \E r \in delete_dst_directory(stray) :
                     /\ batch' = BatchOf(r, {<<d>> : d \in stray})
                     /\ dst_dirs' = dst_dirs \ r.removed
                     /\ ops' = IF r.issued THEN ops \cup {"rmdir"} ELSE ops
                     /\ handled' = (handled \/ r.handled)
                     /\ exc' = r.exc
                     /\ pc' = IF r.exc = "none" THEN "loop" ELSE "exit_handler"
    /\ UNCHANGED <<args, run, src_disk, src_rw, src_changes, dst_disk, tmpdir,
                   locals, exit_code, xfer, earlier_ok, stray_paths, listed,
                   teardown_failed, dst_before, prev, refresh, fixed>>

\* ---------------------------------------------------------------- transfer
\* the uuid a send stream carries for a snapshot: its received uuid when it
\* has one, else its uuid; the receiver stores it as received_uuid
SentUuid(s) == IF s.received_uuid # "" THEN s.received_uuid ELSE s.uuid

SrcAt(rel_path) == CHOOSE s \in src_disk : s.rel_path = rel_path

\* btrfs receive can complete: nothing is in the way at the destination path
\* and the basis of an incremental stream is at the destination; btrfs send
\* needs the snapshot on the source, read-only
CanReceive(s, parent) ==
    /\ s \in src_disk
    /\ s.rel_path \notin src_rw
    /\ s.rel_path \notin Paths(dst_disk)
    /\ parent # NoPath =>
         /\ parent \in Paths(src_disk)
         /\ \E d \in dst_disk : d.received_uuid = SentUuid(SrcAt(parent))

NewId(disk) == 1 + CHOOSE m \in {10} \cup {d.id : d \in disk} :
                       \A d \in disk : d.id <= m

\* the snapshot a completed receive leaves at the destination
Received(s, parent) ==
    Subvol(NewId(dst_disk), DstUuids[s.id], s.rel_path,
           IF parent = NoPath THEN ""
           ELSE (CHOOSE d \in dst_disk :
                     d.received_uuid = SentUuid(SrcAt(parent))).uuid,
           SentUuid(s))

\* what a receive that did not complete may leave: a writable snapshot
\* with no received uuid
Partial(s) == Subvol(NewId(dst_disk), DstUuids[s.id], s.rel_path, "", "")

\* The ways one send|pv|receive pipeline can end: the consumer's exit status,
\* whether its stderr held text, what it left at the destination, and
\* whether the operator interrupted the poll loop.
PipelineOutcomes(s, parent) ==
    LET Out(rc, err, left, intr) ==
            [returncode |-> rc, errors |-> err, left |-> left, interrupted |-> intr]
        lefts == IF s.rel_path \in Paths(dst_disk)
                 THEN {"nothing"} ELSE {"nothing", "partial"}
    IN  (IF CanReceive(s, parent)
         THEN {Out(0, e, "snapshot", FALSE) : e \in BOOLEAN} ELSE {})
        \cup {Out(1, e, l, FALSE) : e \in BOOLEAN, l \in lefts}
        \cup {Out(1, FALSE, l, TRUE) : l \in lefts}

\* do_send_receive, lines 596-600: error_handler is called when stderr of
\* the consumer held text
transfer_failed(out) == out.errors

\* (mutant) do_send_receive without the dry-run return
launches_Always(dry_run) == TRUE

\* do_send_receive, lines 517-520: nothing is launched under --dry-run
launches(dry_run) == ~dry_run

\* (mutant) nothing is ever found at the destination path
dst_path_exists_Never(rel_path) == FALSE

\* main, line 961: os.path.exists(dst_full_path)
dst_path_exists(rel_path) == rel_path \in Paths(dst_disk)

\* main, lines 929-964: one source record: skipped when its path is gone or
\* a corresponding destination record is cached, else whatever is at the
\* destination path is deleted
LoopHead ==
    /\ pc = "loop"
    /\ IF idx > Len(src_subvols)
       THEN \* the loop is over: the last stats, and main returns
            /\ pc' = "exit_handler"
            /\ UNCHANGED <<dst_disk, dst_subvol, idx, ops, handled, exc, batch>>
       ELSE LET src_subvol == src_subvols[idx]
                found == get_dst_subvol_by_src_subvol(src_subvol, dst_subvols)
            IN IF ~src_path_exists(src_subvol.rel_path)
               THEN /\ idx' = idx + 1
                    /\ pc' = "loop"
                    /\ UNCHANGED <<dst_disk, dst_subvol, ops, handled, exc, batch>>
               ELSE /\ dst_subvol' = found
                    /\ IF found # None
                       THEN /\ idx' = idx + 1
                            /\ pc' = "loop"
                            /\ UNCHANGED <<dst_disk, ops, handled, exc, batch>>
                       ELSE IF ~dst_path_exists(src_subvol.rel_path)
                       THEN /\ pc' = "send"
                            /\ UNCHANGED <<dst_disk, idx, ops, handled, exc, batch>>
                       ELSE \E r \in delete_dst_subvols({src_subvol.rel_path}) :
                            /\ batch' = BatchOf(r, {src_subvol.rel_path})
                            /\ dst_disk' = {d \in dst_disk : d.rel_path \notin r.removed}
                            /\ ops' = IF r.issued THEN ops \cup {"delete"} ELSE ops
                            /\ handled' = (handled \/ r.handled)
                            /\ exc' = r.exc
                            /\ pc' = IF r.exc = "none" THEN "send" ELSE "exit_handler"
                            /\ idx' = idx
    /\ UNCHANGED <<args, run, src_disk, src_rw, src_changes, dst_dirs, tmpdir,
                   src_fs_uuid, dst_fs_uuid, src_subvols, dst_subvols,
                   src_parent_rel_path, show_stats_counter, exit_code, xfer, earlier_ok,
                   stray_paths, listed, teardown_failed, dst_before, prev,
                   refresh, fixed>>

\* main, lines 973-980: the counter of send|receive tasks and, when it
\* reaches a multiple of the interval outside --dry-run, the reload of the
\* destination inventory from the volume.  Every way the step can end: the
\* counter and the inventory after it, whether the listing ran and exited
\* with 0, whether error_handler was called, the exception raised.
StatsStep(counter, dst_list, disk) ==
    LET Same(c) == [counter |-> c, dst_subvols |-> dst_list, relisted |-> FALSE,
                    ret_ok |-> TRUE, handled |-> FALSE, exc |-> "none"]
    IN IF ~(args.verbose > 0 /\ stats_interval > 0) THEN {Same(counter)}
       ELSE IF (counter + 1) % stats_interval # 0 \/ args.dry_run
       THEN {Same(counter + 1)}
       ELSE {LET built == build_subvols(ListingOut(disk, {}, FALSE, ok, junk),
                                        args.ignore_errors)
             IN [counter |-> counter + 1,
                 dst_subvols |-> IF built.exc = "none" THEN built.subvols
                                 ELSE dst_list,
                 relisted |-> built.exc = "none", ret_ok |-> ok,
                 handled |-> built.handled, exc |-> built.exc]
             : ok \in BOOLEAN, junk \in BOOLEAN}

\* (mutant) the directory never created
makedirs_if_missing_Never(dirs, path, dry_run) == dirs

\* makedirs_if_missing: the directories after it; the path is created when
\* it does not exist, outside --dry-run
makedirs_if_missing(dirs, path, dry_run) ==
    IF path \in dirs \/ dry_run THEN dirs ELSE dirs \cup {path}

\* main, lines 966-980 and do_send_receive: the incremental parent, the
\* destination directory (os.makedirs can raise, which ends main), the
\* pipeline (btrfs receive leaves nothing where the directory is missing),
\* the error check, the stats
SendReceive ==
    /\ pc = "send"
    /\ LET src_subvol == src_subvols[idx]
           parent == get_valid_src_parent_rel_path(src_subvol.parent_uuid, src_subvols)
           dst_dir == src_subvol.rel_path[1]
       IN /\ src_parent_rel_path' = parent
          /\ IF ~launches(args.dry_run)
             THEN \E stats \in StatsStep(show_stats_counter, dst_subvols, dst_disk) :
                  /\ show_stats_counter' = stats.counter
                  /\ dst_subvols' = stats.dst_subvols
                  /\ refresh' = [refresh EXCEPT !.relisted = FALSE]
                  /\ idx' = idx + 1
                  /\ pc' = "loop"
                  /\ UNCHANGED <<dst_disk, dst_dirs, ops, xfer, earlier_ok,
                                 handled, exc, listed>>
             ELSE LET dirs == makedirs_if_missing(dst_dirs, dst_dir, args.dry_run)
                  IN
                  \/ /\ dirs # dst_dirs
                     /\ exc' = "OSError"
                     /\ pc' = "exit_handler"
                     /\ UNCHANGED <<dst_disk, dst_dirs, ops, xfer, earlier_ok,
                                    handled, listed, show_stats_counter,
                                    dst_subvols, idx, refresh>>
                  \/ \E out \in {o \in PipelineOutcomes(src_subvol, parent) :
                                     o.left = "nothing" \/ dst_dir \in dirs} :
                     LET failed == transfer_failed(out) /\ ~out.interrupted
                         ends == IF out.interrupted THEN "KeyboardInterrupt"
                                 ELSE IF failed THEN error_handler ELSE "none"
                         disk == CASE out.left = "snapshot" ->
                                          dst_disk \cup {Received(src_subvol, parent)}
                                   [] out.left = "partial" ->
                                          dst_disk \cup {Partial(src_subvol)}
                                   [] OTHER -> dst_disk
                         done == refresh.ok + (IF out.returncode = 0 /\ ~out.errors
                                               THEN 1 ELSE 0)
                     IN /\ dst_dirs' = dirs
                        /\ ops' = ops \cup {"sendrecv"} \cup
                                  (IF dirs = dst_dirs THEN {} ELSE {"makedirs"})
                        /\ dst_disk' = disk
                        /\ xfer' =
                             [rel_path |-> src_subvol.rel_path, parent |-> parent,
                              returncode |-> out.returncode, errors |-> out.errors,
                              interrupted |-> out.interrupted, handled |-> failed]
                        /\ earlier_ok' = (earlier_ok /\ Succeeded(xfer))
                        /\ IF ends = "none"
                           THEN \E stats \in StatsStep(show_stats_counter, dst_subvols, disk) :
                                /\ show_stats_counter' = stats.counter
                                /\ dst_subvols' = stats.dst_subvols
                                /\ listed' = IF stats.counter # show_stats_counter
                                                /\ stats.counter % stats_interval = 0
                                             THEN [listed EXCEPT !.dst = stats.ret_ok]
                                             ELSE listed
                                /\ refresh' = IF stats.relisted
                                              THEN [ok |-> 0, relisted |-> TRUE]
                                              ELSE [ok |-> done, relisted |-> FALSE]
                                /\ handled' = (handled \/ failed \/ stats.handled)
                                /\ exc' = stats.exc
                                /\ IF stats.exc = "none"
                                   THEN idx' = idx + 1 /\ pc' = "loop"
                                   ELSE idx' = idx /\ pc' = "exit_handler"
                           ELSE /\ handled' = (handled \/ failed)
                                /\ exc' = ends
                                /\ refresh' = [ok |-> done, relisted |-> FALSE]
                                /\ pc' = "exit_handler"
                                /\ UNCHANGED <<show_stats_counter, dst_subvols, idx, listed>>
    /\ UNCHANGED <<args, run, src_disk, src_rw, src_changes, tmpdir,
                   src_fs_uuid, dst_fs_uuid, src_subvols, dst_subvol,
                   exit_code, stray_paths, teardown_failed,
                   dst_before, prev, batch, fixed>>

\* ------------------------------------------------------------ the way out
\* __main__, lines 1021-1036: every except clause swallows what main()
\* raised, exit_handler runs and the script ends; the exit status is that
\* of a script that ran to its end
main_guard(e) ==
    CASE e = "SystemExit0" -> 0
      [] e = "SystemExit1" -> 0
      [] e = "KeyboardInterrupt" -> 0
      [] e = "RuntimeError" -> 0
      [] OTHER -> 0

MainPcs == {"build", "sshfs", "sshfs_mount", "rsync", "stray_subvols",
            "stray_dirs", "loop", "send"}

\* the operator presses Ctrl-c while main() runs
Interrupt ==
    /\ pc \in MainPcs
    /\ exc' = "KeyboardInterrupt"
    /\ pc' = "exit_handler"
    /\ UNCHANGED <<args, run, world, tmpdir, locals, exit_code, history>>

\* exit_handler: sshfs is args.src.sshfs or args.dst.sshfs; fusermount -u
\* when it is a mountpoint, os.rmdir when it exists; failures are printed
ExitHandler ==
    /\ pc = "exit_handler"
    /\ \E umount_ok \in BOOLEAN :
        LET sshfs == args.sshfs
            ismount == sshfs # "" /\ tmpdir = "mounted"
            after_umount == IF ismount /\ umount_ok THEN "dir" ELSE tmpdir
            exists == sshfs # "" /\ after_umount # "none"
            \* os.rmdir of a directory still mounted raises
            after_rmdir == IF exists /\ after_umount = "dir" THEN "none"
                           ELSE after_umount
        IN /\ tmpdir' = after_rmdir
           /\ teardown_failed' = (ismount /\ ~umount_ok)
    /\ exit_code' = main_guard(exc)
    /\ pc' = "done"
    \* the frame of main() is gone
    /\ src_subvols' = <<>>
    /\ dst_subvols' = <<>>
    /\ idx' = 0
    /\ dst_subvol' = None
    /\ src_parent_rel_path' = NoPath
    /\ show_stats_counter' = 0
    /\ UNCHANGED <<args, run, world, src_fs_uuid, dst_fs_uuid, exc, ops, xfer,
                   earlier_ok, stray_paths, listed, handled, dst_before, prev, refresh, batch, fixed>>

\* ------------------------------------------------------------ environment
\* urbackup prunes a source snapshot, or makes it writable, while the loop
\* of main runs
SourceChange ==
    /\ pc = "loop"
    /\ src_changes < MaxSrcChanges
    /\ src_changes' = src_changes + 1
    /\ \E s \in src_disk, pruned \in BOOLEAN :
        IF pruned
        THEN src_disk' = src_disk \ {s} /\ src_rw' = src_rw
        ELSE src_rw' = src_rw \cup {s.rel_path} /\ src_disk' = src_disk
    /\ UNCHANGED <<args, pc, run, dst_disk, dst_dirs, tmpdir, locals, exc,
                   exit_code, history>>

\* the program is started again, with the same arguments, after a run that
\* came to its end with every transfer it launched successful
Rerun ==
    /\ pc = "done"
    /\ run = 1
    /\ exc = "none"
    /\ earlier_ok /\ Succeeded(xfer)
    /\ run' = run + 1
    /\ prev' = [ran |-> TRUE, complete |-> exc = "none",
                dry_run |-> args.dry_run, all_ok |-> earlier_ok /\ Succeeded(xfer),
                launched |-> xfer # NoXfer, listed |-> listed]
    /\ args' = [args EXCEPT !.sshfs = ""]
    /\ pc' = "start"
    /\ tmpdir' = "none"
    /\ src_fs_uuid' = ""
    /\ dst_fs_uuid' = ""
    /\ src_subvols' = <<>>
    /\ dst_subvols' = <<>>
    /\ idx' = 0
    /\ dst_subvol' = None
    /\ src_parent_rel_path' = NoPath
    /\ show_stats_counter' = 0
    /\ exc' = "none"
    /\ exit_code' = -1
    /\ ops' = {}
    /\ xfer' = NoXfer
    /\ earlier_ok' = TRUE
    /\ stray_paths' = {}
    /\ listed' = [src |-> FALSE, dst |-> FALSE]
    /\ handled' = FALSE
    /\ teardown_failed' = FALSE
    /\ dst_before' = [disk |-> dst_disk, dirs |-> dst_dirs]
    /\ refresh' = Fresh
    /\ batch' = NoBatch
    /\ UNCHANGED <<world, fixed>>

\* ------------------------------------------------ helpers on their own
MaxInv == 3      \* records of an inventory handed to get_subvol_orphans
MaxLines == 3    \* lines of a listing handed to build_subvols
MaxChunk == 2    \* characters one readline of the progress pipe returns
MaxPolls == 3    \* polls of the progress pipe during one transfer

SeqsUpTo(S, n) == UNION {[1..m -> S] : m \in 0..n}

\* (mutant) the orphans without the test for a non-empty parent uuid
get_subvol_orphans_NoEmptyTest(subvols) ==
    LET uuids == {subvols[i].uuid : i \in 1..Len(subvols)}
        IsOrphan(s) == s.parent_uuid \notin uuids
        orphans == SelectSeq(subvols, IsOrphan)
    IN [i \in 1..Len(orphans) |-> orphans[i].uuid]

\* get_subvol_orphans: the uuid of every record, in list order, that has a
\* parent_uuid and whose parent_uuid is the uuid of no record of the list
get_subvol_orphans(subvols) ==
    LET uuids == {subvols[i].uuid : i \in 1..Len(subvols)}
        IsOrphan(s) == s.parent_uuid # "" /\ s.parent_uuid \notin uuids
        orphans == SelectSeq(subvols, IsOrphan)
    IN [i \in 1..Len(orphans) |-> orphans[i].uuid]

\* the records inventories are made of here: the three first snapshots of
\* the source, each with every parent
OrphanRecords ==
    {Subvol(n, SrcUuids[n], SrcPaths[n], parent, "") :
        n \in 1..3, parent \in {"", "A", "B", "Z"}}

\* show_stats, lines 727-728: get_subvol_orphans on an inventory
CallOrphans ==
    /\ call.fn = "none"
    /\ \E inv \in SeqsUpTo(OrphanRecords, MaxInv) :
        call' = [fn |-> "get_subvol_orphans", input |-> inv,
                 output |-> get_subvol_orphans(inv)]
    /\ UNCHANGED <<args, pc, run, world, tmpdir, locals, exc, exit_code, ops,
                   xfer, earlier_ok, stray_paths, listed, handled,
                   teardown_failed, dst_before, prev, refresh, batch,
                   stats_interval>>

\* the lines listings are made of here: those of the source snapshots and
\* of two destination snapshots, a line of another shape, and a line cut
\* off before its path
CutLine == [ID |-> 7, uuid |-> "T", parent_uuid |-> "-", received_uuid |-> "-"]
ListingLineSet ==
    {Line(SrcSubvol(n)) : n \in 1..MaxSrc}
        \cup {Line(DstCopy1), Line(DstPartial), JunkLine, CutLine}

\* build_subvols on the stdout of a listing command, lines in any order
CallBuildSubvols ==
    /\ call.fn = "none"
    /\ \E lines \in SeqsUpTo(ListingLineSet, MaxLines), ignore_errors \in BOOLEAN :
        call' = [fn |-> "build_subvols", input |-> lines,
                 ignore_errors |-> ignore_errors,
                 output |-> build_subvols([ret |-> 0, out |-> lines], ignore_errors)]
    /\ UNCHANGED <<args, pc, run, world, tmpdir, locals, exc, exit_code, ops,
                   xfer, earlier_ok, stray_paths, listed, handled,
                   teardown_failed, dst_before, prev, refresh, batch,
                   stats_interval>>

\* str(v) of a whole number: the characters of its decimal digits
DigitChars == <<"0", "1", "2", "3", "4", "5", "6", "7", "8", "9">>

RECURSIVE str(_)
str(v) == IF v < 10 THEN <<DigitChars[v + 1]>>
          ELSE str(v \div 10) \o <<DigitChars[(v % 10) + 1]>>

\* max() of a set of numbers
max(S) == CHOOSE m \in S : \A n \in S : n <= m

\* (mutant) one size for every column: the longest value of all the rows
get_max_column_sizes_Widest(data) ==
    LET widest == max({Len(str(data[r][c])) :
                          r \in 1..Len(data), c \in 1..Len(data[1])})
    IN [c \in 1..Len(data[1]) |-> widest]

\* get_max_column_sizes(*data): zip(*data) gives the columns; the size of a
\* column is the longest str() of its values
get_max_column_sizes(data) ==
    LET columns == max({n \in 0..Len(data[1]) :
                           \A r \in 1..Len(data) : n <= Len(data[r])})
    IN [c \in 1..columns |->
           max({Len(str(data[r][c])) : r \in 1..Len(data)})]

\* '{:>n}'.format(v): str(v) after the spaces that fill n places
format_right(v, n) ==
    LET text == str(v)
    IN IF Len(text) >= n THEN text
       ELSE [i \in 1..(n - Len(text)) |-> " "] \o text

\* the rows of statistics (subvols, parents, orphans, percent used) taken
\* here
StatsRows ==
    {<<12, 3, 1, 50>>, <<5, 1, 0, 90>>}
        \cup {<<n, p, 0, u>> : n \in {0, 7, 100}, p \in {0, 10}, u \in {0, 100}}

\* show_stats, lines 736-750: the column sizes of both rows and the four
\* values of each row formatted with them
CallShowStats ==
    /\ call.fn = "none"
    /\ \E src_stats \in StatsRows, dst_stats \in StatsRows :
        LET column_sizes == get_max_column_sizes(<<src_stats, dst_stats>>)
        IN call' = [fn |-> "show_stats",
                    src_stats |-> src_stats, dst_stats |-> dst_stats,
                    column_sizes |-> column_sizes,
                    src_msg |-> [c \in 1..4 |->
                                    format_right(src_stats[c], column_sizes[c])],
                    dst_msg |-> [c \in 1..4 |->
                                    format_right(dst_stats[c], column_sizes[c])]]
    /\ UNCHANGED <<args, pc, run, world, tmpdir, locals, exc, exit_code, ops,
                   xfer, earlier_ok, stray_paths, listed, handled,
                   teardown_failed, dst_before, prev, refresh, batch,
                   stats_interval>>

\* text is a sequence of characters; CR is the carriage return
CR == "\r"
Chars == {"x", CR}

\* str.count(CR) and str.split(CR)
count(text) == Cardinality({i \in 1..Len(text) : text[i] = CR})

RECURSIVE split(_)
split(text) ==
    IF CR \notin Range(text) THEN <<text>>
    ELSE LET i == CHOOSE k \in 1..Len(text) :
                      text[k] = CR /\ \A j \in 1..(k - 1) : text[j] # CR
         IN <<SubSeq(text, 1, i - 1)>> \o split(SubSeq(text, i + 1, Len(text)))

\* (mutant) the poll that surfaces the fragment after the last CR
poll_SurfaceFragment(line_buf, line_out, data) ==
    IF data = <<>> THEN [line_buf |-> line_buf, line_out |-> line_out]
    ELSE LET buf == line_buf \o data
         IN IF CR \notin Range(buf) THEN [line_buf |-> buf, line_out |-> line_out]
            ELSE [line_out |-> split(buf)[count(buf) + 1],
                  line_buf |-> split(buf)[count(buf) + 1]]

\* do_send_receive, lines 574-584: one pass of the poll loop on the data
\* readline returned; cr_lines[i] of the code is cr_lines[i + 1] here
poll(line_buf, line_out, data) ==
    IF data = <<>> THEN [line_buf |-> line_buf, line_out |-> line_out]
    ELSE LET buf == line_buf \o data
         IN IF CR \notin Range(buf) THEN [line_buf |-> buf, line_out |-> line_out]
            ELSE LET cr_count == count(buf)
                     cr_lines == split(buf)
                 IN [line_out |-> cr_lines[cr_count - 1 + 1],
                     line_buf |-> cr_lines[cr_count + 1]]

\* do_send_receive, lines 568-584: the poll loop of one transfer; received
\* is all the data read so far
PollStart ==
    /\ call.fn = "none"
    /\ call' = [fn |-> "poll", polls |-> 0, received |-> <<>>,
                line_buf |-> <<>>, line_out |-> <<>>]
    /\ UNCHANGED <<args, pc, run, world, tmpdir, locals, exc, exit_code, ops,
                   xfer, earlier_ok, stray_paths, listed, handled,
                   teardown_failed, dst_before, prev, refresh, batch,
                   stats_interval>>

Poll ==
    /\ call.fn = "poll"
    /\ call.polls < MaxPolls
    /\ \E data \in SeqsUpTo(Chars, MaxChunk) :
        LET after == poll(call.line_buf, call.line_out, data)
        IN call' = [fn |-> "poll", polls |-> call.polls + 1,
                    received |-> call.received \o data,
                    line_buf |-> after.line_buf, line_out |-> after.line_out]
    /\ UNCHANGED <<args, pc, run, world, tmpdir, locals, exc, exit_code, ops,
                   xfer, earlier_ok, stray_paths, listed, handled,
                   teardown_failed, dst_before, prev, refresh, batch,
                   stats_interval>>

\* --------------------------------------------------------------- run_cmd
\* run_cmd, lines 342-346: the command handed to subprocess.run; under
\* dryrun the command is logged and echo runs in its place
cmd_list(cmd, dryrun) == IF dryrun THEN "echo" ELSE cmd

\* what subprocess.run(check=True, capture_output=True) can do with a
\* command: the process runs and exits with a status, leaving its stdout
\* and stderr; the process cannot be started (OSError); Ctrl-c arrives
\* while it runs (KeyboardInterrupt)
Completed(returncode, stdout, stderr) ==
    [kind |-> "completed", returncode |-> returncode, stdout |-> stdout,
     stderr |-> stderr]
NotStarted == [kind |-> "OSError"]
CtrlC == [kind |-> "KeyboardInterrupt"]
SubprocessRun(command) ==
    {NotStarted, CtrlC}
        \cup IF command = "echo"
             THEN {Completed(0, "noop", "")}
             ELSE {Completed(0, "out", ""), Completed(1, "", "err"),
                   Completed(1, "out", "err")}

\* run_cmd, lines 348-362.  A process that exits with 0 and one that exits
\* with another status (CalledProcessError) both assign ret, out and err.
\* Everything else subprocess.run raises goes to the bare except clause,
\* which calls error_handler and assigns nothing: error_handler ends the
\* run with sys.exit(1), or under --ignore-errors returns, and the return
\* statement then reads three names that were never assigned.  result is
\* what the caller receives, <<>> when run_cmd raises instead of returning.
run_cmd(ran, ignore_errors) ==
    IF ran.kind = "completed"
    THEN [exc |-> "none", handled |-> FALSE,
          result |-> <<ran.returncode, ran.stdout, ran.stderr>>]
    ELSE IF ~ignore_errors
    THEN [exc |-> "SystemExit1", handled |-> TRUE, result |-> <<>>]
    ELSE [exc |-> "UnboundLocalError", handled |-> TRUE, result |-> <<>>]

\* the commands the program hands to run_cmd
Commands == {"btrfs", "sshfs", "rsync", "fusermount"}

\* run_cmd called on one command: no caller wraps the call in a try, so
\* what run_cmd raises leaves the caller too
CallRunCmd ==
    /\ call.fn = "none"
    /\ \E cmd \in Commands, dryrun \in BOOLEAN, ignore_errors \in BOOLEAN :
        \E ran \in SubprocessRun(cmd_list(cmd, dryrun)) :
            call' = [fn |-> "run_cmd", cmd |-> cmd, dryrun |-> dryrun,
                     ignore_errors |-> ignore_errors, ran |-> ran,
                     output |-> run_cmd(ran, ignore_errors)]
    /\ UNCHANGED <<args, pc, run, world, tmpdir, locals, exc, exit_code, ops,
                   xfer, earlier_ok, stray_paths, listed, handled,
                   teardown_failed, dst_before, prev, refresh, batch,
                   stats_interval>>

\* ------------------------------------------- the processes of a transfer
MaxTransfers == 2   \* transfers the loop of main launches
PipeCap == 1        \* text an OS pipe holds before a write to it blocks
MaxErr == 2         \* text one process writes to its stderr

\* the three Popen objects of do_send_receive
Roles == {"send_proc", "stat_proc", "recv_proc"}

\* the process of a role in the k-th transfer
Proc(k, role) == <<k, role>>
Procs == {Proc(k, role) : k \in 1..MaxTransfers, role \in Roles}

\* main, lines 929-971 and do_send_receive, lines 551-565: the loop calls
\* do_send_receive when the call before it has returned; the three
\* processes are started, stderr of each a pipe.  todo: the text each
\* process has yet to write to its stderr; fails: btrfs receive ends
\* before its input does
PipeLaunch ==
    /\ \/ call.fn = "none"
       \/ call.fn = "pipeline" /\ call.ctl = "returned" /\ call.n < MaxTransfers
    /\ \E todo \in [Roles -> 0..MaxErr], fails \in BOOLEAN :
        LET first == call.fn = "none"
            n == IF first THEN 1 ELSE call.n + 1
            was == IF first THEN [alive |-> {}, todo |-> [p \in Procs |-> 0],
                                  pipe |-> [p \in Procs |-> 0]]
                   ELSE [alive |-> call.alive, todo |-> call.todo,
                         pipe |-> call.pipe]
        IN call' = [fn |-> "pipeline", n |-> n, ctl |-> "poll",
                    fails |-> fails, errors |-> FALSE,
                    alive |-> was.alive \cup {Proc(n, role) : role \in Roles},
                    todo |-> [p \in Procs |-> IF p[1] = n THEN todo[p[2]]
                                              ELSE was.todo[p]],
                    pipe |-> was.pipe]
    /\ UNCHANGED <<args, pc, run, world, tmpdir, locals, exc, exit_code, ops,
                   xfer, earlier_ok, stray_paths, listed, handled,
                   teardown_failed, dst_before, prev, refresh, batch,
                   stats_interval>>

\* a process writes to its stderr: the write blocks while the pipe is full
PipeWrite ==
    /\ call.fn = "pipeline"
    /\ \E p \in call.alive :
        /\ call.todo[p] > 0
        /\ call.pipe[p] < PipeCap
        /\ call' = [call EXCEPT !.todo[p] = @ - 1, !.pipe[p] = @ + 1]
    /\ UNCHANGED <<args, pc, run, world, tmpdir, locals, exc, exit_code, ops,
                   xfer, earlier_ok, stray_paths, listed, handled,
                   teardown_failed, dst_before, prev, refresh, batch,
                   stats_interval>>

\* a process exits, its stderr written: btrfs send when its stream is
\* out (or the pipe to pv is broken), pv at the end of its input or when the
\* pipe to btrfs receive is broken, btrfs receive at the end of its input
\* or, failing, before it
PipeExit ==
    /\ call.fn = "pipeline"
    /\ \E p \in call.alive :
        /\ call.todo[p] = 0
        /\ CASE p[2] = "send_proc" -> TRUE
             [] p[2] = "stat_proc" ->
                    \/ Proc(p[1], "send_proc") \notin call.alive
                    \/ Proc(p[1], "recv_proc") \notin call.alive
             [] p[2] = "recv_proc" ->
                    \/ Proc(p[1], "stat_proc") \notin call.alive
                    \/ p[1] = call.n /\ call.fails
        /\ call' = [call EXCEPT !.alive = @ \ {p}]
    /\ UNCHANGED <<args, pc, run, world, tmpdir, locals, exc, exit_code, ops,
                   xfer, earlier_ok, stray_paths, listed, handled,
                   teardown_failed, dst_before, prev, refresh, batch,
                   stats_interval>>

\* do_send_receive, lines 572-584: one pass of the loop while
\* recv_proc.poll() is None: one readline of the stderr of pv
PipePoll ==
    /\ call.fn = "pipeline" /\ call.ctl = "poll"
    /\ Proc(call.n, "recv_proc") \in call.alive
    /\ call.pipe[Proc(call.n, "stat_proc")] > 0
    /\ call' = [call EXCEPT !.pipe[Proc(call.n, "stat_proc")] = @ - 1]
    /\ UNCHANGED <<args, pc, run, world, tmpdir, locals, exc, exit_code, ops,
                   xfer, earlier_ok, stray_paths, listed, handled,
                   teardown_failed, dst_before, prev, refresh, batch,
                   stats_interval>>

\* do_send_receive, lines 596-600: the loop is over when btrfs receive has
\* exited; communicate() reads its stderr, error_handler when it held text;
\* send_proc and stat_proc are not waited for
PipeCommunicate ==
    /\ call.fn = "pipeline" /\ call.ctl = "poll"
    /\ Proc(call.n, "recv_proc") \notin call.alive
    /\ LET errors == call.pipe[Proc(call.n, "recv_proc")] > 0
       IN call' = [call EXCEPT !.pipe[Proc(call.n, "recv_proc")] = 0,
                               !.errors = errors,
                               !.ctl = IF errors /\ error_handler # "none"
                                       THEN "exited" ELSE "returned"]
    /\ UNCHANGED <<args, pc, run, world, tmpdir, locals, exc, exit_code, ops,
                   xfer, earlier_ok, stray_paths, listed, handled,
                   teardown_failed, dst_before, prev, refresh, batch,
                   stats_interval>>

Program ==
    \/ MainStart
    \/ BuildSubvols
    \/ SshfsMkdir
    \/ SshfsMount
    \/ RsyncCopyMisc
    \/ DeleteStraySubvols
    \/ DeleteStrayDirs
    \/ LoopHead
    \/ SendReceive
    \/ Interrupt
    \/ ExitHandler

\* one run of the program on a quiet source, every combination of the flags
\* that change what main() does; -v only drives the statistics block of
\* lines 973-980, which SpecStats runs at both levels
ArgsMain == {a \in Args : a.verbose = 0}
Init == InitWith(ArgsMain)
Next == Program
Spec == Init /\ [][Next]_vars

\* arguments of a batch run on local endpoints that deletes no strays; the
\* mount and the stray deletion are then never reached
ArgsLocal == {a \in Args : /\ ~a.interactive /\ a.verbose = 0
                           /\ ~a.src_ssh /\ ~a.dst_ssh /\ ~a.delete_strays}
ProgramLocal ==
    \/ MainStart
    \/ BuildSubvols
    \/ SshfsMkdir
    \/ RsyncCopyMisc
    \/ LoopHead
    \/ SendReceive
    \/ Interrupt
    \/ ExitHandler

\* one run while urbackup changes the source
InitEnv == InitWith(ArgsLocal)
NextEnv == ProgramLocal \/ SourceChange
SpecEnv == InitEnv /\ [][NextEnv]_vars

\* two runs of the program in a row
ArgsBatch == {a \in Args : /\ ~a.interactive /\ a.verbose = 0
                           /\ ~a.src_ssh /\ ~a.dst_ssh}
ProgramBatch ==
    \/ MainStart
    \/ BuildSubvols
    \/ SshfsMkdir
    \/ RsyncCopyMisc
    \/ DeleteStraySubvols
    \/ DeleteStrayDirs
    \/ LoopHead
    \/ SendReceive
    \/ Interrupt
    \/ ExitHandler

\* the flags of the two runs: a batch of stray deletions is either complete
\* or the end of its run (one that fails in part and goes on is run by Spec)
ArgsRerun == {a \in ArgsBatch : ~(a.delete_strays /\ a.ignore_errors)}
InitRerun == InitWith(ArgsRerun)
NextRerun == ProgramBatch \/ Rerun
SpecRerun == InitRerun /\ [][NextRerun]_vars

\* one run on local endpoints with SHOW_STATS_INTERVAL set to a value the
\* transfers of the run can reach, at both levels of verbosity
StatsIntervals == {0, 1, 2}
ArgsStats == {a \in Args : /\ ~a.interactive /\ ~a.src_ssh /\ ~a.dst_ssh
                           /\ ~a.delete_strays}
InitStats == InitRun(ArgsStats, StatsIntervals)
NextStats == ProgramLocal
SpecStats == InitStats /\ [][NextStats]_vars

\* the helpers called on their own, on every input within the bounds
ArgsCalls == {a \in Args : /\ ~a.interactive /\ a.verbose = 0 /\ ~a.src_ssh
                           /\ ~a.dst_ssh /\ ~a.delete_strays /\ ~a.dry_run
                           /\ ~a.ignore_errors}
InitCalls == InitWith(ArgsCalls) /\ dst_disk = {}
NextCalls ==
    \/ CallOrphans \/ CallBuildSubvols \/ CallShowStats \/ CallRunCmd
    \/ PollStart \/ Poll
SpecCalls == InitCalls /\ [][NextCalls]_vars

\* the transfers of one run, process by process; the operating system
\* lets every process that can take a step take it
ArgsPipes == {a \in Args : /\ ~a.interactive /\ a.verbose = 0 /\ ~a.src_ssh
                           /\ ~a.dst_ssh /\ ~a.delete_strays /\ ~a.dry_run}
InitPipes == InitWith(ArgsPipes) /\ dst_disk = {}
NextPipes == PipeLaunch \/ PipeWrite \/ PipeExit \/ PipePoll \/ PipeCommunicate
SpecPipes == InitPipes /\ [][NextPipes]_vars /\ WF_vars(NextPipes)

\* ================================================================= claims
\* d corresponds to s: d.received_uuid is not empty, it is the uuid or the
\* received uuid of s, and the relative paths are equal
Corresponds(d, s) ==
    /\ d.received_uuid # ""
    /\ d.received_uuid = s.uuid \/ d.received_uuid = s.received_uuid
    /\ d.rel_path = s.rel_path

InMain == pc \in MainPcs \cup {"exit_handler"}

\* C1: for every source record s and destination inventory D,
\* get_dst_subvol_by_src_subvol(s, D) returns a record exactly when some d
\* of D corresponds to s; the record returned is one of D and corresponds
\* to s; None is returned when there is none.  main's dst_subvol, the
\* result it tests, is that value for the record of the loop.
C1_Correspondence ==
    /\ \A s \in Range(src_subvols) :
        LET r == get_dst_subvol_by_src_subvol(s, dst_subvols)
        IN /\ (r # None) <=> (\E d \in Range(dst_subvols) : Corresponds(d, s))
           /\ r # None => r \in Range(dst_subvols) /\ Corresponds(r, s)
    /\ pc = "send" =>
        /\ dst_subvol = None
        /\ ~\E d \in Range(dst_subvols) : Corresponds(d, src_subvols[idx])
    /\ (InMain /\ dst_subvol # None) =>
        \E s \in Range(src_subvols) :
            dst_subvol \in Range(dst_subvols) /\ Corresponds(dst_subvol, s)

\* C1 witness: the loop found the copy of snapshot 1 although the
\* inventory also holds a record received from it at another path
C1_Witness ==
    /\ pc = "loop"
    /\ dst_subvol = DstCopy1
    /\ DstMoved \in Range(dst_subvols)

Mutating == {"delete", "rmdir", "makedirs", "sendrecv"}

\* C3: in a run with --dry-run, whatever the other flags, no subvolume
\* delete, rmdir, makedirs or send/receive is issued and the destination
\* (snapshots and directories) stays what it was when the run started
C3_DryRunPurity ==
    args.dry_run =>
        /\ ops \cap Mutating = {}
        /\ dst_disk = dst_before.disk
        /\ dst_dirs = dst_before.dirs
        /\ xfer = NoXfer

\* C3 witness: a dry run with strays to delete went through the stray
\* deletion and the whole loop, the last record having no copy
C3_Witness ==
    /\ args.dry_run /\ args.delete_strays /\ args.interactive
    /\ stray_paths # {}
    /\ pc = "loop" /\ idx > Len(src_subvols) /\ Len(src_subvols) > 0
    /\ dst_subvol = None

\* a transfer error: stderr text of the consumer, or its non-zero exit
TransferError(x) == x # NoXfer /\ ~x.interrupted /\ (x.errors \/ x.returncode # 0)

\* C4: after a transfer error the driver goes on with the remaining
\* snapshots under --ignore-errors and launches no further transfer
\* without it: without --ignore-errors every transfer before the last
\* one launched was free of error, and with it a transfer error does not
\* end the run
C4_TransferErrorStops ==
    /\ (~args.ignore_errors /\ xfer # NoXfer) => earlier_ok
    /\ (args.ignore_errors /\ TransferError(xfer)) => exc # "SystemExit1"

\* C5: a transfer is treated as failed (error_handler is invoked for it)
\* exactly when the consumer's stderr text is not empty or the consumer
\* exits non-zero
C5_FailureDetection ==
    (xfer # NoXfer /\ ~xfer.interrupted) =>
        (xfer.handled <=> (xfer.errors \/ xfer.returncode # 0))

\* the step of main that computes the parent and calls do_send_receive
SendStep == pc = "send" /\ (pc' = "loop" \/ xfer' # xfer)

C7_Strays ==
    /\ pc = "stray_dirs" =>
        stray_paths = {p \in Paths(Range(dst_subvols)) :
                          \A s \in Range(src_subvols) : s.rel_path # p}
    /\ InMain =>
        \A d \in dst_before.disk :
            (/\ d \in Range(dst_subvols)
             /\ \A s \in Range(src_subvols) : s.rel_path # d.rel_path
             /\ d \notin dst_disk)
            => (args.delete_strays /\ ~args.dry_run)

\* C7 witness: the record received from snapshot 1 at another path was the
\* stray set and has been deleted
C7_Witness ==
    /\ pc = "stray_dirs"
    /\ stray_paths = {DstMoved.rel_path}
    /\ DstMoved \in dst_before.disk /\ DstMoved \notin dst_disk
    /\ DstCopy1 \in dst_disk
    /\ args.delete_strays /\ ~args.dry_run

\* C8: on every exit path, once exit_handler has run without a failure
\* of its own, the bridge is unmounted and its mountpoint removed
C8_Teardown ==
    (pc = "done" /\ ~teardown_failed) => tmpdir = "none"

\* C9: the exit code is 0 when the run succeeds or has nothing to do, and 1
\* when it ends on a fatal condition or completes with ignored errors
C9_ExitCode ==
    pc = "done" =>
        /\ (exc = "none" /\ ~handled) => exit_code = 0
        /\ (exc \in {"SystemExit1", "RuntimeError"}) => exit_code = 1
        /\ (exc = "none" /\ handled) => exit_code = 1

\* C10: with both endpoints remote, a filesystem uuid that cannot be
\* determined, or one uuid for both endpoints, the run aborts before an
\* inventory is built and before any mount, rsync, deletion or transfer,
\* whatever --ignore-errors says
C10_ConfigAbort ==
    (/\ pc # "start"
     /\ \/ args.src_ssh /\ args.dst_ssh
        \/ src_fs_uuid = ""
        \/ dst_fs_uuid = ""
        \/ src_fs_uuid = dst_fs_uuid)
    => /\ pc \in {"exit_handler", "done"}
       /\ exc = "RuntimeError"
       /\ ops = {}
       /\ src_subvols = <<>> /\ dst_subvols = <<>>
       /\ ~listed.src /\ ~listed.dst
       /\ tmpdir = "none"
       /\ xfer = NoXfer
       /\ dst_disk = dst_before.disk /\ dst_dirs = dst_before.dirs

\* C10 witness: a run with --ignore-errors on one and the same filesystem
\* has ended
C10_Witness ==
    /\ pc = "done" /\ exc = "RuntimeError"
    /\ args.ignore_errors
    /\ ~args.src_ssh /\ ~args.dst_ssh
    /\ src_fs_uuid = "fs1" /\ dst_fs_uuid = "fs1"

\* C11: when the listing command of an endpoint exits non-zero, the failure
\* goes through error_handler and the run stops unless errors are ignored:
\* the stray deletion and the loop are never reached on the inventory of a
\* failed listing without an error reported
C11_ListingFailureReported ==
    /\ ("list" \in ops /\ ~listed.src) => handled
    /\ (/\ pc \in {"stray_subvols", "stray_dirs", "loop", "send"}
        /\ ~(listed.src /\ listed.dst))
       => (handled /\ args.ignore_errors)

\* C12: a failed stray deletion never ends the run by itself: whatever
\* --ignore-errors says, a stray pass that issued its delete calls goes on to
\* the directories, and one that issued its rmdir calls goes on to the loop
C12_StrayFailureGoesOn ==
    [][/\ (pc = "stray_subvols" /\ batch'.issued /\ batch' # batch)
            => (pc' = "stray_dirs" /\ exc' = "none")
       /\ (pc = "stray_dirs" /\ batch'.issued /\ batch' # batch)
            => (pc' = "loop" /\ exc' = "none")
    ]_vars

\* C13: after a destination delete call that succeeded, the destination
\* inventory is listed again before the loop uses it: at the head of the
\* loop it holds no record of a snapshot this run has deleted
C13_RebuiltAfterDelete ==
    pc = "loop" => \A d \in Range(dst_subvols) : d \in dst_disk

\* C15: in one stray pass every stray subvolume delete call is issued before
\* the first rmdir, and the stray directories come from a scan taken after
\* the subvolume deletions: the subvolume step leaves the directories
\* alone, before the directory step the batch of all stray paths has had
\* its calls, and the directory step hands over the directories the
\* destination holds then, RSYNC_DST and those of the source left out
C15_SubvolsBeforeDirs ==
    /\ [](/\ pc = "stray_subvols" => "rmdir" \notin ops
          /\ (pc = "stray_dirs" /\ stray_paths # {}) =>
                /\ batch.items = stray_paths
                /\ batch.issued <=> ~args.dry_run)
    /\ [][/\ pc = "stray_subvols" => dst_dirs' = dst_dirs
          /\ pc = "stray_dirs" =>
                /\ dst_disk' = dst_disk
                /\ batch' # batch =>
                     batch'.items =
                        {<<d>> : d \in (dst_dirs \ {RSYNC_DST}) \ Dirs(src_disk)}
                /\ (dst_dirs \ dst_dirs') \subseteq
                     ((dst_dirs \ {RSYNC_DST}) \ Dirs(src_disk))
      ]_vars

\* C15 witness: the stray snapshot s/1 was deleted and the directory s it
\* left empty was removed in the same pass
C15_Witness ==
    /\ pc = "loop"
    /\ DstStray \in dst_before.disk /\ DstStray \notin dst_disk
    /\ "s" \in dst_before.dirs /\ "s" \notin dst_dirs
    /\ {"delete", "rmdir"} \subseteq ops

\* C16: in interactive mode outside --dry-run every batch of destination
\* deletions starts with a countdown; when the operator leaves it with
\* escape no call of the batch is issued, the run is over (sys.exit(0)) and
\* nothing is transferred or deleted afterwards
C16_Countdown ==
    /\ [](/\ (args.interactive /\ ~args.dry_run /\ batch # NoBatch)
                => batch.key \in {"enter", "escape"}
          /\ batch.key = "escape"
                => /\ ~batch.issued
                   /\ exc = "SystemExit0"
                   /\ pc \in {"exit_handler", "done"})
    /\ [][/\ (batch'.key = "escape" /\ batch.key # "escape")
                => (dst_disk' = dst_disk /\ dst_dirs' = dst_dirs /\ ops' = ops)
          /\ (batch.key = "escape")
                => /\ dst_disk' = dst_disk /\ dst_dirs' = dst_dirs
                   /\ ops' = ops /\ xfer' = xfer
      ]_vars

\* C16 witness: the operator left the countdown of the deletion inside the
\* loop, after one transfer; the interrupted copy is still there
C16_Witness ==
    /\ pc = "done" /\ exc = "SystemExit0"
    /\ batch = [key |-> "escape", issued |-> FALSE, items |-> {DstPartial.rel_path}]
    /\ xfer # NoXfer
    /\ DstPartial \in dst_disk

\* C14: with an interval N > 0 and outside --dry-run the destination
\* inventory is rebuilt after every N successful transfers, whatever the
\* verbosity; a failed transfer does not count, and with N = 0 there is no
\* periodic rebuild: the step after a transfer rebuilds the inventory
\* exactly when that transfer succeeded and was the N-th success since the
\* inventory was last built
C14_PeriodicRefresh ==
    [][(pc = "send" /\ pc' = "loop" /\ ~args.dry_run) =>
          LET done == refresh.ok + (IF Succeeded(xfer') THEN 1 ELSE 0)
          IN refresh'.relisted <=>
                (stats_interval > 0 /\ Succeeded(xfer') /\ done = stats_interval)
    ]_vars

\* C17: for every inventory get_subvol_orphans returns exactly the uuids of
\* the records whose parent_uuid is not empty and is the uuid of no record
\* of the same inventory, one entry for each such record
C17_Orphans ==
    call.fn = "get_subvol_orphans" =>
        LET inv == call.input
            Orphan == {i \in 1..Len(inv) :
                          /\ inv[i].parent_uuid # ""
                          /\ \A j \in 1..Len(inv) : inv[j].uuid # inv[i].parent_uuid}
        IN /\ Range(call.output) = {inv[i].uuid : i \in Orphan}
           /\ Len(call.output) = Cardinality(Orphan)

\* C17 witness: (A, parent ''), (B, parent A), (C, parent Z) gave C
C17_Witness ==
    /\ call.fn = "get_subvol_orphans"
    /\ call.input = <<Subvol(1, "A", SrcPaths[1], "", ""),
                      Subvol(2, "B", SrcPaths[2], "A", ""),
                      Subvol(3, "C", SrcPaths[3], "Z", "")>>
    /\ call.output = <<"C">>

\* a line of the shape the patterns of build_subvols match
WellFormed(line) == LineFields \subseteq DOMAIN line

\* the record a well-formed line stands for, '-' read as no uuid
RecordOf(line) ==
    Subvol(line.ID, line.uuid, line.path,
           IF line.parent_uuid = "-" THEN "" ELSE line.parent_uuid,
           IF line.received_uuid = "-" THEN "" ELSE line.received_uuid)

\* C18: for every listing output, in whatever line order, build_subvols
\* returns the parsed records sorted by id in ascending order
C18_SortedById ==
    (call.fn = "build_subvols" /\ call.output.exc = "none") =>
        LET lines == call.input
            subvols == call.output.subvols
            good == {i \in 1..Len(lines) : WellFormed(lines[i])}
        IN /\ \A i, j \in 1..Len(subvols) : i < j => subvols[i].id <= subvols[j].id
           /\ Len(subvols) = Cardinality(good)
           /\ \A r \in {RecordOf(lines[i]) : i \in good} :
                 Cardinality({i \in good : RecordOf(lines[i]) = r})
                     = Cardinality({j \in 1..Len(subvols) : subvols[j] = r})

\* C18 witness: the lines of snapshots 3, 1, 2 gave the records 1, 2, 3
C18_Witness ==
    /\ call.fn = "build_subvols"
    /\ call.input = <<Line(SrcSubvol(3)), Line(SrcSubvol(1)), Line(SrcSubvol(2))>>
    /\ call.output.subvols = <<SrcSubvol(1), SrcSubvol(2), SrcSubvol(3)>>

\* C19: a line that does not have the expected shape ends build_subvols
\* (sys.exit(1) of error_handler) without --ignore-errors; with it the line
\* is skipped, every well-formed line still gives its record and
\* error_handler has been called
C19_MalformedLine ==
    call.fn = "build_subvols" =>
        LET lines == call.input
            out == call.output
            good == {i \in 1..Len(lines) : WellFormed(lines[i])}
            bad == (1..Len(lines)) \ good
        IN /\ (bad # {} /\ ~call.ignore_errors) =>
                (out.exc = "SystemExit1" /\ out.handled)
           /\ (bad # {} /\ call.ignore_errors) =>
                /\ out.exc = "none" /\ out.handled
                /\ Len(out.subvols) = Cardinality(good)
                /\ Range(out.subvols) = {RecordOf(lines[i]) : i \in good}
           /\ bad = {} => (out.exc = "none" /\ ~out.handled)

\* C19 witness: with --ignore-errors a line of another shape between the
\* lines of snapshots 2 and 1 was skipped and both records were returned
C19_Witness ==
    /\ call.fn = "build_subvols" /\ call.ignore_errors
    /\ call.input = <<Line(SrcSubvol(2)), JunkLine, Line(SrcSubvol(1))>>
    /\ call.output.subvols = <<SrcSubvol(1), SrcSubvol(2)>>
    /\ call.output.handled

\* position of the last CR of a text before position n, 0 when there is none
LastCR(text, n) ==
    LET at == {i \in 1..(n - 1) : text[i] = CR}
    IN IF at = {} THEN 0 ELSE CHOOSE i \in at : \A j \in at : j <= i

\* C20: after each poll the buffer holds no CR; the line surfaced is the
\* last CR-terminated segment of the data received so far (nothing is
\* surfaced before a CR has arrived), and the buffer is the fragment
\* after the last CR, which the next chunk is appended to
C20_ProgressBuffer ==
    call.fn = "poll" =>
        LET text == call.received
            last == LastCR(text, Len(text) + 1)
        IN /\ CR \notin Range(call.line_buf)
           /\ call.line_buf = SubSeq(text, last + 1, Len(text))
           /\ call.line_out = IF last = 0 THEN <<>>
                              ELSE SubSeq(text, LastCR(text, last) + 1, last - 1)

\* C20 witness: after "x CR", "x x", "CR x" the line surfaced is "x x" and
\* the fragment "x" is buffered
C20_Witness ==
    /\ call.fn = "poll"
    /\ call.received = <<"x", CR, "x", "x", CR, "x">>
    /\ call.line_out = <<"x", "x">>
    /\ call.line_buf = <<"x">>

\* C22: no record build_subvols returns has '-' as parent_uuid or as
\* received_uuid: a '-' of the line is the empty string of the record, and a
\* record whose line had '-' as received_uuid is the corresponding record of
\* no source snapshot
C22_NoSentinel ==
    (call.fn = "build_subvols" /\ call.output.exc = "none") =>
        LET lines == call.input
            subvols == call.output.subvols
            good == {i \in 1..Len(lines) : WellFormed(lines[i])}
        IN /\ \A r \in Range(subvols) :
                 r.parent_uuid # "-" /\ r.received_uuid # "-"
           /\ \A i \in good :
                 /\ lines[i].parent_uuid = "-" =>
                      \E r \in Range(subvols) :
                          /\ r.id = lines[i].ID /\ r.uuid = lines[i].uuid
                          /\ r.parent_uuid = ""
                 /\ lines[i].received_uuid = "-" =>
                      \E r \in Range(subvols) :
                          /\ r.id = lines[i].ID /\ r.uuid = lines[i].uuid
                          /\ r.received_uuid = ""
           /\ \A s \in SrcVolume :
                 LET d == get_dst_subvol_by_src_subvol(s, subvols)
                 IN d # None =>
                      \E i \in good : /\ lines[i].ID = d.id
                                       /\ lines[i].uuid = d.uuid
                                       /\ lines[i].received_uuid # "-"

\* C22 witness: the line of an interrupted copy at the path of snapshot 2,
\* '-' in both places, gave a record with two empty strings that is the
\* corresponding record of no source snapshot
C22_Witness ==
    /\ call.fn = "build_subvols"
    /\ call.input = <<Line(DstPartial), Line(DstCopy1)>>
    /\ Line(DstPartial).received_uuid = "-"
    /\ call.output.subvols = <<DstCopy1, DstPartial>>
    /\ DstPartial.received_uuid = "" /\ DstPartial.parent_uuid = ""
    /\ \A s \in SrcVolume :
          get_dst_subvol_by_src_subvol(s, call.output.subvols) # DstPartial

\* C23: the directory of RSYNC_DST is an item of no batch of directory
\* removals, and is no stray directory of the destination as it is,
\* whatever directories the source has, one of that name included
C23_RsyncDstKept ==
    /\ <<RSYNC_DST>> \notin batch.items
    /\ \A src_dirs \in SUBSET (SrcDirs \cup {RSYNC_DST}) :
          RSYNC_DST \notin stray_dst_dirs(src_dirs, dst_dirs)

\* C23 witness: after the file sync made the directory of RSYNC_DST, which
\* the source lacks, a batch of directory removals was issued for the
\* directory "old" and the directory of RSYNC_DST is still there
C23_Witness ==
    /\ pc = "loop" /\ "rsync" \in ops
    /\ batch.issued /\ <<"old">> \in batch.items
    /\ "old" \notin dst_dirs
    /\ RSYNC_DST \in dst_dirs /\ RSYNC_DST \notin SrcDirs

\* a text of n places that ends with the digits of v after spaces only
RightAligned(text, v, n) ==
    /\ Len(text) = n
    /\ SubSeq(text, n - Len(str(v)) + 1, n) = str(v)
    /\ \A i \in 1..(n - Len(str(v))) : text[i] = " "

\* C24 as stated: for source stats (12,3,1,50) and destination stats
\* (5,1,0,90) each of the four columns is right-aligned to width 2
C24_ColumnWidths_AsStated ==
    (/\ call.fn = "show_stats"
     /\ call.src_stats = <<12, 3, 1, 50>>
     /\ call.dst_stats = <<5, 1, 0, 90>>) =>
        \A c \in 1..4 :
            /\ call.column_sizes[c] = 2
            /\ RightAligned(call.src_msg[c], call.src_stats[c], 2)
            /\ RightAligned(call.dst_msg[c], call.dst_stats[c], 2)

\* C24 as amended: each column is right-aligned to the width of the widest
\* value of that column across both rows; for source stats (12,3,1,50) and
\* destination stats (5,1,0,90) the widths are 2, 1, 1 and 2
C24_ColumnWidths ==
    call.fn = "show_stats" =>
        /\ \A c \in 1..4 :
              LET n == max({Len(str(call.src_stats[c])),
                            Len(str(call.dst_stats[c]))})
              IN /\ call.column_sizes[c] = n
                 /\ RightAligned(call.src_msg[c], call.src_stats[c], n)
                 /\ RightAligned(call.dst_msg[c], call.dst_stats[c], n)
        /\ (/\ call.src_stats = <<12, 3, 1, 50>>
            /\ call.dst_stats = <<5, 1, 0, 90>>)
              => call.column_sizes = <<2, 1, 1, 2>>

\* C24 witness: the two rows of the claim gave " 5" under "12" and "1"
\* under "3"
C24_Witness ==
    /\ call.fn = "show_stats"
    /\ call.src_stats = <<12, 3, 1, 50>>
    /\ call.dst_stats = <<5, 1, 0, 90>>
    /\ call.src_msg = << <<"1", "2">>, <<"3">>, <<"1">>, <<"5", "0">> >>
    /\ call.dst_msg = << <<" ", "5">>, <<"1">>, <<"0">>, <<"9", "0">> >>

\* a step of do_send_receive that started the processes of a pipeline
Launch == pc = "send" /\ xfer' # xfer

\* C25: when the processes of a transfer are started the parent directory
\* of the destination snapshot exists, made by that call when it was
\* absent; a run with --dry-run makes no directory
C25_DirectoryFirst ==
    /\ [](args.dry_run => ("makedirs" \notin ops /\ dst_dirs \subseteq dst_before.dirs))
    /\ [][Launch =>
            LET dst_dir == src_subvols[idx].rel_path[1]
            IN /\ ~args.dry_run
               /\ dst_dir \in dst_dirs'
               /\ dst_dir \notin dst_dirs => "makedirs" \in ops']_vars

\* C25 witness: a transfer into a directory the destination did not have
\* when the run started has succeeded, the directory made for it
C25_Witness ==
    /\ "makedirs" \in ops /\ "sendrecv" \in ops
    /\ Succeeded(xfer) /\ xfer # NoXfer
    /\ xfer.rel_path[1] \in dst_dirs \ dst_before.dirs
    /\ xfer.rel_path \in Paths(dst_disk)

\* C26: when an incremental transfer is launched with parent P the
\* destination holds a snapshot that corresponds to P, received from P at
\* the relative path of P
C26_ParentAtDestination ==
    [][(Launch /\ xfer'.parent # NoPath) =>
          \E d \in dst_disk : Corresponds(d, SrcAt(xfer'.parent))]_vars

\* C27: no step of a run removes from the destination a snapshot that
\* corresponds to a read-only snapshot the source holds at that moment
C27_ValidCopyKept ==
    [][\A d \in dst_disk \ dst_disk' :
          ~\E s \in src_disk : s.rel_path \notin src_rw /\ Corresponds(d, s)]_vars

\* a run outside --dry-run that came to its end with no error: both
\* listings ran, nothing went to error_handler, every transfer succeeded
ErrorFree ==
    /\ pc = "done" /\ exc = "none" /\ ~args.dry_run
    /\ listed.src /\ listed.dst /\ ~handled
    /\ earlier_ok /\ Succeeded(xfer)

\* the loop is at a source snapshot with no corresponding destination
\* record whose destination path exists
InTheWay ==
    /\ pc = "loop" /\ idx <= Len(src_subvols)
    /\ src_path_exists(src_subvols[idx].rel_path)
    /\ get_dst_subvol_by_src_subvol(src_subvols[idx], dst_subvols) = None
    /\ src_subvols[idx].rel_path \in Paths(dst_disk)

\* the step is a batch of one delete for the path of that snapshot
DeleteFirst ==
    /\ batch'.items = {src_subvols[idx].rel_path}
    /\ (batch'.key # "escape") => (batch'.issued <=> ~args.dry_run)
    /\ batch'.issued => ("delete" \in ops')

\* C29: a source snapshot with no corresponding destination record whose
\* destination path exists gets a batch of one delete for that path before
\* its transfer (issued outside --dry-run, only logged under it), no
\* transfer is launched onto a path that exists unless that delete was
\* issued, and an error-free run ends with a corresponding destination
\* snapshot for every source snapshot, also when it started with an
\* interrupted copy in place
C29_Recovery ==
    /\ [](ErrorFree => \A s \in src_disk : \E d \in dst_disk : Corresponds(d, s))
    /\ [][(InTheWay /\ exc' # "KeyboardInterrupt") => DeleteFirst]_vars
    /\ [][Launch => (\/ xfer'.rel_path \notin Paths(dst_disk)
                     \/ batch.items = {xfer'.rel_path} /\ batch.issued)]_vars

\* C29 witness: a run that found the interrupted copy of snapshot 2 at the
\* destination deleted it and ended without an error, a copy of snapshot 2
\* in its place
C29_Witness ==
    /\ ErrorFree
    /\ DstPartial \in dst_before.disk /\ DstPartial \notin dst_disk
    /\ batch.issued /\ batch.items = {DstPartial.rel_path}
    /\ \E d \in dst_disk : Corresponds(d, SrcSubvol(2))

\* the index of the loop never goes back and moves by one when a record
\* has been dealt with
OneByOne ==
    /\ (pc \in {"loop", "send"} /\ pc' \in {"loop", "send"})
          => idx' \in {idx, idx + 1}
    /\ (pc \in {"loop", "send"} /\ pc' = "loop" /\ idx <= Len(src_subvols))
          => idx' = idx + 1
    /\ (pc = "loop" /\ pc' = "send") => idx' = idx

\* the record launched is after that of the transfer before it, by index
\* and by id, and after the record of its parent when that has a smaller id
AfterEarlier ==
    /\ (xfer # NoXfer) =>
          \E k \in 1..(idx - 1) :
              /\ src_subvols[k].rel_path = xfer.rel_path
              /\ src_subvols[k].id < src_subvols[idx].id
    /\ \A k \in 1..Len(src_subvols) :
          (/\ src_subvols[k].uuid = src_subvols[idx].parent_uuid
           /\ src_subvols[k].id < src_subvols[idx].id) => k < idx

\* C30: the loop goes through the source inventory in strictly ascending
\* id order: the inventory is strictly ascending, the index never goes
\* back and moves by one when a record has been dealt with, a transfer is
\* launched for a record after that of the transfer before it, and the
\* record of a parent with a smaller id is before the record launched
C30_AscendingOrder ==
    /\ [](\A i, j \in 1..Len(src_subvols) :
              i < j => src_subvols[i].id < src_subvols[j].id)
    /\ [][OneByOne]_vars
    /\ [][Launch => AfterEarlier]_vars

\* C30 witness: the transfer of snapshot 2 (id 2, parent snapshot 1) was
\* launched with that parent after the transfer of snapshot 1 (id 1), and
\* the loop is past both
C30_Witness ==
    /\ pc = "loop" /\ idx = 3
    /\ src_subvols[1] = SrcSubvol(1) /\ src_subvols[2] = SrcSubvol(2)
    /\ xfer.rel_path = SrcSubvol(2).rel_path
    /\ xfer.parent = SrcSubvol(1).rel_path
    /\ earlier_ok /\ Succeeded(xfer)
    /\ \E d \in dst_disk \ dst_before.disk : Corresponds(d, SrcSubvol(1))

\* C21: at most three child processes of transfers are alive, and the
\* processes of a transfer are started when every process of the transfers
\* before it has exited
C21_NoOverlap ==
    call.fn = "pipeline" =>
        /\ Cardinality(call.alive) <= 3
        /\ \A p \in call.alive : p[1] = call.n

\* C28: a transfer that was launched comes to its end: btrfs receive exits
\* and do_send_receive returns (or error_handler ends the run)
C28_TransferEnds ==
    (call.fn = "pipeline" /\ call.ctl = "poll") ~>
        (call.fn = "pipeline" /\ call.ctl # "poll")

\* the loop of main takes the record at idx, whose path is gone from the
\* source volume
PrunedTurn ==
    /\ pc = "loop"
    /\ idx <= Len(src_subvols)
    /\ src_subvols[idx].rel_path \notin Paths(src_disk)
    /\ src_changes' = src_changes
    /\ exc' # "KeyboardInterrupt"

\* the record is passed over and nothing else happens
Skipped ==
    /\ idx' = idx + 1
    /\ pc' = "loop"
    /\ xfer' = xfer
    /\ dst_disk' = dst_disk
    /\ dst_dirs' = dst_dirs
    /\ ops' = ops
    /\ batch' = batch
    /\ handled' = handled
    /\ exc' = exc

\* C31: a source record whose path is gone from the source volume when its
\* turn comes is skipped: no transfer is launched for it, nothing is
\* deleted at the destination, error_handler is not invoked and the loop
\* goes on with the next record
C31_PrunedSkipped ==
    [][PrunedTurn => Skipped]_vars

\* the record before idx was pruned and passed over (no transfer of it, no
\* copy of it cached), the path in its way at the destination is still
\* there, and the loop stands at the next record
C31_Witness ==
    /\ pc = "loop"
    /\ ~args.dry_run
    /\ idx = 3
    /\ src_subvols[2] = SrcSubvol(2)
    /\ SrcSubvol(2) \notin src_disk
    /\ get_dst_subvol_by_src_subvol(SrcSubvol(2), dst_subvols) = None
    /\ xfer.rel_path # SrcSubvol(2).rel_path
    /\ DstPartial \in dst_disk
    /\ ~handled
    /\ exc = "none"

\* C32: run_cmd hands a (return code, stdout, stderr) triple to its caller
\* whenever it returns, and under --ignore-errors it returns one also when
\* the command could not be started
C32_ReturnsTriple ==
    call.fn = "run_cmd" =>
        /\ call.output.exc = "none" => Len(call.output.result) = 3
        /\ (call.ran.kind = "OSError" /\ call.ignore_errors) =>
               /\ call.output.exc = "none"
               /\ Len(call.output.result) = 3
====
